---------------------------- MODULE Spec2Model ----------------------------
(***************************************************************************)
(* Model of src/snake.py (Snake of Time): the Snake entity, the            *)
(* GameSession forward/backward tick with its bounded history, the food    *)
(* spawner with the deferred-food stack, and the event/tick loop of        *)
(* Game.run.                                                               *)
(*                                                                         *)
(* Rectangles are pygame.Rect values: a position <<left, top>> plus the    *)
(* fixed side of the entity (PART_SIZE for segments, FOOD_SIZE for food).  *)
(* The clock is pygame.time.get_ticks(): it advances in the loop's         *)
(* pygame.time.delay and is read unchanged during the rest of a frame.     *)
(***************************************************************************)
EXTENDS Integers, Sequences, FiniteSets, TLC

(* ------------------------------ constants ------------------------------ *)

\* Snake.PART_SIZE
PART_SIZE == 15
\* GameSession.LOG_LIMIT
LOG_LIMIT == 25
\* GameSession.FOOD_SIZE
FOOD_SIZE == 20
\* GameSession.SNAKE_START_LENGTH
SNAKE_START_LENGTH == 3
\* GameDifficulty.NORMAL, the frame time Game.__init__ selects
NORMAL == 40
\* Game.BAR_SIZE
BAR_SIZE == (PART_SIZE * 3) - 7

(* -------------------------------- bounds ------------------------------- *)

\* width and height of the game area handed to GameSession (Game.run uses
\* 800 x 600; the session code takes any area)
AreaWidth == 75
AreaHeight == 75
\* frames simulated after Init
MaxTicks == 4
\* forward ticks already played in the initial state of SpecWarm
WarmTicks == 25
\* pygame.time.get_ticks() when the session is created
StartTicks == 3

(* ------------------------------ Direction ------------------------------ *)

Direction == {"UP", "DOWN", "LEFT", "RIGHT"}

\* Snake.Direction: the value of each member, <<x_dir, y_dir>>
DirectionValue(d) ==
    CASE d = "UP"    -> <<0, -1>>
      [] d = "DOWN"  -> <<0, 1>>
      [] d = "LEFT"  -> <<-1, 0>>
      [] d = "RIGHT" -> <<1, 0>>

(* ------------------------------ pygame.Rect ---------------------------- *)

Rect(pos, size) == [left |-> pos[1], top |-> pos[2], width |-> size, height |-> size]

\* pygame.Rect.colliderect for rectangles of positive size
colliderect(a, b) ==
    /\ a.left < b.left + b.width
    /\ b.left < a.left + a.width
    /\ a.top < b.top + b.height
    /\ b.top < a.top + a.height

\* pygame.Rect.center
center(r) == <<r.left + (r.width \div 2), r.top + (r.height \div 2)>>

(* -------------------------------- Snake -------------------------------- *)

\* Snake.head / Snake.tail over the list of part positions
head(parts) == parts[1]
tail(parts) == SubSeq(parts, 2, Len(parts))

\* a slip in has_collisions: only the walls are tested, not the tail
has_collisions_ignores_tail(parts, game_are) ==
    LET h == Rect(head(parts), PART_SIZE) IN
    \/ h.left < game_are.left
    \/ h.left + h.width > game_are.left + game_are.width
    \/ h.top < game_are.top
    \/ h.top + h.height > game_are.top + game_are.height

\* Snake.has_collisions
has_collisions(parts, game_are) ==
    LET h == Rect(head(parts), PART_SIZE) IN
    \/ h.left < game_are.left
    \/ h.left + h.width > game_are.left + game_are.width
    \/ h.top < game_are.top
    \/ h.top + h.height > game_are.top + game_are.height
    \/ \E i \in 1..Len(tail(parts)) :
          colliderect(h, Rect(tail(parts)[i], PART_SIZE))

\* a slip in increase: the new part copies the head, parts[0], not parts[-1]
increase_at_head(parts) == Append(parts, parts[1])

\* Snake.increase
increase(parts) == Append(parts, parts[Len(parts)])

\* the loop of Snake.move: i runs from len(tail) down to 1, parts[i] takes
\* the position of parts[i - 1] (python indices; TLA+ indices are one more)
RECURSIVE move_tail(_, _)
move_tail(parts, i) ==
    IF i = 0 THEN parts
    ELSE move_tail([parts EXCEPT ![i + 1] = parts[i]], i - 1)

\* Snake.move
move(parts, direction) ==
    LET shifted == move_tail(parts, Len(tail(parts)))
        v == DirectionValue(direction)
        h == head(shifted)
    IN [shifted EXCEPT ![1] = <<h[1] + v[1] * PART_SIZE, h[2] + v[2] * PART_SIZE>>]

\* a slip in turn_right: the guard names the requested direction
turn_right_wrong_guard(d) == IF d # "RIGHT" THEN "RIGHT" ELSE d

\* Snake.turn_up .. Snake.turn_right, on the current direction
turn_up(d) == IF d # "DOWN" THEN "UP" ELSE d
turn_down(d) == IF d # "UP" THEN "DOWN" ELSE d
turn_left(d) == IF d # "RIGHT" THEN "LEFT" ELSE d
turn_right(d) == IF d # "LEFT" THEN "RIGHT" ELSE d

\* Snake.__init__: the head and tail_length parts appended by increase()
RECURSIVE snake_init(_, _)
snake_init(parts, tail_length) ==
    IF tail_length = 0 THEN parts
    ELSE snake_init(increase(parts), tail_length - 1)

(* ----------------------------- GameSession ----------------------------- *)

\* the keys Game.run hands to handle_keypress
DirectionKeys == {"K_UP", "K_DOWN", "K_LEFT", "K_RIGHT"}

\* randrange(start, stop) returns a value of start .. stop - 1: its first
\* and its last value
randrange_first(start, stop) == start
\* a slip in generate_food: the range is not shortened by FOOD_SIZE * 2
randrange_last_past_margin(start, stop) == stop + (FOOD_SIZE * 2) - 1
randrange_last(start, stop) == stop - 1

\* the two randrange calls of generate_food (lines 148-149); the model draws
\* the first position of the range and the last one
FoodDraws(area) ==
    LET stop_left == area.left + area.width - (FOOD_SIZE * 2)
        stop_top == area.top + area.height - (FOOD_SIZE * 2)
    IN {<<randrange_first(area.left, stop_left), randrange_first(area.top, stop_top)>>,
        <<randrange_last(area.left, stop_left), randrange_last(area.top, stop_top)>>}

\* GameSession.generate_food: the food returned and the stack left behind
generate_food(s, draw) ==
    IF s.is_predictable_future /\ s.next_foods # <<>>
    THEN [food |-> s.next_foods[Len(s.next_foods)],
          next_foods |-> SubSeq(s.next_foods, 1, Len(s.next_foods) - 1)]
    ELSE [food |-> draw, next_foods |-> s.next_foods]

\* a slip in is_full_reversed: < where the code has <=
is_full_reversed_strict(s, t) == t - s.last_full_revert < (LOG_LIMIT * s.frame_time)

\* GameSession.is_full_reversed at clock value t
is_full_reversed(s, t) == t - s.last_full_revert <= (LOG_LIMIT * s.frame_time)

\* GameSession.score
score(s) == Len(s.parts) - SNAKE_START_LENGTH

\* python round() of the exact quotient n / d: half goes to the even neighbour
round(n, d) ==
    LET q == n \div d
        r == n % d
    IN IF 2 * r < d THEN q
       ELSE IF 2 * r > d THEN q + 1
       ELSE IF q % 2 = 0 THEN q ELSE q + 1

\* GameSession.reverse_percent
reverse_percent(s) == round(Len(s.logs) * 100, LOG_LIMIT)

\* a deque built without maxlen
deque_append_unbounded(logs, x) == Append(logs, x)

\* a slip in the history: a full history drops its newest entry, not its oldest
deque_append_drops_newest(logs, x) ==
    IF Len(logs) >= LOG_LIMIT THEN Append(SubSeq(logs, 1, Len(logs) - 1), x)
    ELSE Append(logs, x)

\* deque(maxlen=LOG_LIMIT).append
deque_append(logs, x) ==
    IF Len(logs) >= LOG_LIMIT THEN Append(SubSeq(logs, 2, Len(logs)), x)
    ELSE Append(logs, x)

\* a slip in _add_log: the snapshot is taken of snake.tail
add_log_tail_only(s) ==
    [s EXCEPT !.logs = deque_append(s.logs,
        [snake_direction |-> s.direction, snake_parts |-> tail(s.parts), food |-> s.food])]

\* GameSession._add_log
add_log(s) ==
    [s EXCEPT !.logs = deque_append(s.logs,
        [snake_direction |-> s.direction, snake_parts |-> s.parts, food |-> s.food])]

\* the head overlaps the food: the test of line 180
eats(s) == s.is_running /\ colliderect(Rect(head(s.parts), PART_SIZE), Rect(s.food, FOOD_SIZE))

\* a slip in _move_forward: eating removes the last part instead of adding one
move_forward_shrinks(s, draw) ==
    LET moved == [s EXCEPT !.parts = move(s.parts, s.direction)]
        checked == [moved EXCEPT !.is_running = ~has_collisions(moved.parts, moved.area)]
        shrunk == [checked EXCEPT !.parts = SubSeq(@, 1, Len(@) - 1)]
        gf == generate_food(shrunk, draw)
        fed == IF eats(checked)
               THEN [shrunk EXCEPT !.food = gf.food, !.next_foods = gf.next_foods]
               ELSE checked
    IN add_log(fed)

\* GameSession._move_forward
move_forward(s, draw) ==
    LET moved == [s EXCEPT !.parts = move(s.parts, s.direction)]
        checked == [moved EXCEPT !.is_running = ~has_collisions(moved.parts, moved.area)]
        grown == [checked EXCEPT !.parts = increase(checked.parts)]
        gf == generate_food(grown, draw)
        fed == IF eats(checked)
               THEN [grown EXCEPT !.food = gf.food, !.next_foods = gf.next_foods]
               ELSE checked
    IN add_log(fed)

\* a slip in _move_backward: the direction of the snapshot is not restored
move_backward_keeps_direction(s, t) ==
    LET last_log == s.logs[Len(s.logs)]
        popped == SubSeq(s.logs, 1, Len(s.logs) - 1)
        food == last_log.food
    IN [s EXCEPT !.logs = popped,
                 !.last_full_revert = IF popped = <<>> THEN t ELSE @,
                 !.parts = last_log.snake_parts,
                 !.next_foods =
                     IF s.is_predictable_future
                        /\ center(Rect(food, FOOD_SIZE)) # center(Rect(s.food, FOOD_SIZE))
                     THEN Append(@, s.food) ELSE @,
                 !.food = food]

\* a slip in _move_backward: the restored head eats the restored food
move_backward_eats(s, t) ==
    LET last_log == s.logs[Len(s.logs)]
        popped == SubSeq(s.logs, 1, Len(s.logs) - 1)
        food == last_log.food
    IN [s EXCEPT !.logs = popped,
                 !.last_full_revert = IF popped = <<>> THEN t ELSE @,
                 !.direction = last_log.snake_direction,
                 !.parts = IF colliderect(Rect(head(last_log.snake_parts), PART_SIZE),
                                          Rect(food, FOOD_SIZE))
                           THEN increase(last_log.snake_parts)
                           ELSE last_log.snake_parts,
                 !.next_foods =
                     IF s.is_predictable_future
                        /\ center(Rect(food, FOOD_SIZE)) # center(Rect(s.food, FOOD_SIZE))
                     THEN Append(@, s.food) ELSE @,
                 !.food = food]

\* a slip in _move_backward: the displaced food is kept whatever the mode
move_backward_always_defers(s, t) ==
    LET last_log == s.logs[Len(s.logs)]
        popped == SubSeq(s.logs, 1, Len(s.logs) - 1)
        food == last_log.food
    IN [s EXCEPT !.logs = popped,
                 !.last_full_revert = IF popped = <<>> THEN t ELSE @,
                 !.direction = last_log.snake_direction,
                 !.parts = last_log.snake_parts,
                 !.next_foods =
                     IF center(Rect(food, FOOD_SIZE)) # center(Rect(s.food, FOOD_SIZE))
                     THEN Append(@, s.food) ELSE @,
                 !.food = food]

\* GameSession._move_backward at clock value t
move_backward(s, t) ==
    LET last_log == s.logs[Len(s.logs)]
        popped == SubSeq(s.logs, 1, Len(s.logs) - 1)
        food == last_log.food
    IN [s EXCEPT !.logs = popped,
                 !.last_full_revert = IF popped = <<>> THEN t ELSE @,
                 !.direction = last_log.snake_direction,
                 !.parts = last_log.snake_parts,
                 !.next_foods =
                     IF s.is_predictable_future
                        /\ center(Rect(food, FOOD_SIZE)) # center(Rect(s.food, FOOD_SIZE))
                     THEN Append(@, s.food) ELSE @,
                 !.food = food]

\* a slip in move_snake: the recharge window is not consulted
reversed_mode_ignores_cooldown(s, pressed_r, t) == pressed_r /\ s.logs # <<>>

\* the mode move_snake selects (line 118), as a truth value
reversed_mode(s, pressed_r, t) == pressed_r /\ s.logs # <<>> /\ ~is_full_reversed(s, t)

\* GameSession.move_snake at clock value t
move_snake(s, pressed_r, t, draw) ==
    LET m == [s EXCEPT !.is_reversed = reversed_mode(s, pressed_r, t)]
    IN IF m.is_reversed THEN move_backward(m, t) ELSE move_forward(m, draw)

\* GameSession.handle_keypress: keys without a handler do nothing
handle_keypress(s, key) ==
    CASE key = "K_UP"    -> [s EXCEPT !.direction = turn_up(@)]
      [] key = "K_DOWN"  -> [s EXCEPT !.direction = turn_down(@)]
      [] key = "K_LEFT"  -> [s EXCEPT !.direction = turn_left(@)]
      [] key = "K_RIGHT" -> [s EXCEPT !.direction = turn_right(@)]
      [] OTHER -> s

\* a slip in __init__: the recharge window is already over at creation
session_init_no_cooldown(game_area, ft, predictable, t, draw) ==
    LET start_left == game_area.left + (game_area.width \div (2 * PART_SIZE)) * PART_SIZE
        start_top == game_area.top + (game_area.height \div (2 * PART_SIZE)) * PART_SIZE
        s0 == [area |-> game_area, frame_time |-> ft,
               is_running |-> TRUE, logs |-> <<>>, is_reversed |-> FALSE,
               last_full_revert |-> t - (LOG_LIMIT * ft) - 1,
               is_predictable_future |-> predictable,
               next_foods |-> <<>>,
               direction |-> "LEFT",
               parts |-> snake_init(<<<<start_left, start_top>>>>, SNAKE_START_LENGTH - 1),
               food |-> <<0, 0>>]
    IN [s0 EXCEPT !.food = generate_food(s0, draw).food]

\* GameSession.__init__ at clock value t; draw is the first random food
session_init(game_area, ft, predictable, t, draw) ==
    LET start_left == game_area.left + (game_area.width \div (2 * PART_SIZE)) * PART_SIZE
        start_top == game_area.top + (game_area.height \div (2 * PART_SIZE)) * PART_SIZE
        s0 == [area |-> game_area, frame_time |-> ft,
               is_running |-> TRUE, logs |-> <<>>, is_reversed |-> FALSE,
               last_full_revert |-> t, is_predictable_future |-> predictable,
               next_foods |-> <<>>,
               direction |-> "LEFT",
               parts |-> snake_init(<<<<start_left, start_top>>>>, SNAKE_START_LENGTH - 1),
               food |-> <<0, 0>>]
    IN [s0 EXCEPT !.food = generate_food(s0, draw).food]

\* randrange(start, stop) raises ValueError when its range is empty
randrange_raises(start, stop) == stop <= start

\* what is left of a construction that raised: no session object
NoSession == [raised |-> "ValueError"]

\* GameSession(game_area, frame_time, ...) as its caller sees it: the
\* constructor checks none of its arguments, and the only statement of it
\* that can raise is the first generate_food (line 109), whose randrange
\* calls raise on an empty range
construct(game_area, ft, predictable, t, draw) ==
    IF \/ randrange_raises(game_area.left,
                           game_area.left + game_area.width - (FOOD_SIZE * 2))
       \/ randrange_raises(game_area.top,
                           game_area.top + game_area.height - (FOOD_SIZE * 2))
    THEN NoSession
    ELSE session_init(game_area, ft, predictable, t, draw)

\* a slip in Game.run: move_snake is called whether the session runs or not
loop_tick_unguarded(s, pressed_r, t, draw) == move_snake(s, pressed_r, t, draw)

\* the tick of one pass of the loop of Game.run (lines 258-262): move_snake
\* only while the session is running
loop_tick(s, pressed_r, t, draw) ==
    IF s.is_running THEN move_snake(s, pressed_r, t, draw) ELSE s

\* the area Game.run builds, with the bounded width and height
GameArea == [left |-> 0, top |-> BAR_SIZE, width |-> AreaWidth, height |-> AreaHeight]

(* ------------------------------- state --------------------------------- *)

VARIABLES
    game,        \* the GameSession of Game.run (a record of its fields)
    now,         \* pygame.time.get_ticks()
    in_menu,     \* Game.run has returned to the menu
    ticks,       \* frames played since Init
    last_op,     \* what the last step was
    last_key,    \* the last direction key handled since the last tick
    tick_dir,    \* the direction in force when the last tick ended
    ate,         \* the last tick was a forward tick on which the snake ate
    eaten,       \* eating events since the session was created
    run_pre,     \* states before each tick of the current run of forward ticks
    run_post,    \* states after each tick of that run
    back_n,      \* backward ticks taken right after that run
    served,      \* served[k + 1]: the food last put in play at score k
    expected,    \* the food an eating event replays, <<>> when it is a new one
    drain_T      \* clock value of the last backward tick that emptied the history

vars == <<game, now, in_menu, ticks, last_op, last_key, tick_dir,
          ate, eaten, run_pre, run_post, back_n, served, expected, drain_T>>

\* the observable simulation state a snapshot is about
View(s) == <<s.direction, s.parts, s.food>>

\* pygame.time.delay(milliseconds) pauses for the time given, and not at
\* all for a negative one
delay(milliseconds) == IF milliseconds < 0 THEN 0 ELSE milliseconds

\* milliseconds a pass of the loop can take: the delay alone, or a stall
\* that lasts the whole recharge window
FrameDurations(ft) == {delay(ft), LOG_LIMIT * delay(ft)}

\* milliseconds between two ticks, a stall longer than the recharge window
\* included
TickDurations(ft) == FrameDurations(ft) \cup {LOG_LIMIT * delay(ft) + 1}

\* frame times Game hands to the session
FrameTimes == {NORMAL}

(* ------------------------------- Init ---------------------------------- *)

InitGhosts ==
    /\ last_key = "none"
    /\ ate = FALSE
    /\ eaten = 0
    /\ run_pre = <<>>
    /\ run_post = <<>>
    /\ back_n = 0
    /\ served = <<game.food>>
    /\ expected = <<>>
    /\ drain_T = -1

\* Game.run up to the first pass of its loop: a fresh session
Init ==
    /\ now = StartTicks
    /\ \E ft \in FrameTimes, predictable \in BOOLEAN, draw \in FoodDraws(GameArea) :
          game = session_init(GameArea, ft, predictable, now, draw)
    /\ in_menu = FALSE
    /\ ticks = 0
    /\ last_op = "init"
    /\ tick_dir = "none"
    /\ InitGhosts

(* ------------------------------ actions -------------------------------- *)

Keys == DirectionKeys \cup {"K_r", "K_RETURN"}

\* one KEYDOWN event of the event loop of Game.run (lines 251-255)
KeyDown(key) ==
    /\ ~in_menu
    /\ IF key = "K_RETURN" /\ ~game.is_running
       THEN /\ in_menu' = TRUE
            /\ last_op' = "menu"
            /\ UNCHANGED <<game, last_key>>
       ELSE /\ game' = handle_keypress(game, key)
            /\ last_key' = (IF key \in DirectionKeys THEN key ELSE last_key)
            /\ last_op' = (IF key \in DirectionKeys THEN "key" ELSE last_op)
            /\ UNCHANGED in_menu
    /\ UNCHANGED <<now, ticks, tick_dir, ate, eaten, run_pre, run_post,
                   back_n, served, expected, drain_T>>

\* the rest of one pass of the loop of Game.run (lines 257-263): the delay,
\* then move_snake when the session is running; pressed_r is what
\* pygame.key.get_pressed() reports for K_r
Frame ==
    /\ ~in_menu
    /\ ticks < MaxTicks
    /\ \E d \in FrameDurations(game.frame_time), pressed_r \in BOOLEAN,
          draw \in FoodDraws(game.area) :
         LET t == now + d
             back == game.is_running /\ reversed_mode(game, pressed_r, t)
             fwd == game.is_running /\ ~back
             r == loop_tick(game, pressed_r, t, draw)
             ateNow == /\ fwd
                       /\ r.is_running
                       /\ colliderect(Rect(head(move(game.parts, game.direction)), PART_SIZE),
                                      Rect(game.food, FOOD_SIZE))
             k == score(game) + 1
             plain == fwd /\ r.is_running /\ ~ateNow
         IN /\ now' = t
            /\ game' = r
            /\ ticks' = ticks + 1
            /\ last_op' = (IF back THEN "backward" ELSE IF fwd THEN "forward" ELSE "over")
            /\ last_key' = "none"
            /\ tick_dir' = r.direction
            /\ ate' = ateNow
            /\ eaten' = (IF ateNow THEN eaten + 1 ELSE eaten)
            /\ run_pre' = (IF plain
                            THEN (IF back_n > 0 THEN <<View(game)>> ELSE Append(run_pre, View(game)))
                            ELSE IF fwd THEN <<>> ELSE run_pre)
            /\ run_post' = (IF plain
                             THEN (IF back_n > 0 THEN <<View(r)>> ELSE Append(run_post, View(r)))
                             ELSE IF fwd THEN <<>> ELSE run_post)
            /\ back_n' = (IF fwd THEN 0 ELSE IF back THEN back_n + 1 ELSE back_n)
            /\ expected' = (IF ateNow /\ Len(served) >= k + 1 THEN served[k + 1] ELSE <<>>)
            /\ served' = (IF ~ateNow THEN served
                           ELSE IF Len(served) >= k + 1 /\ served[k + 1] = r.food THEN served
                           ELSE Append(SubSeq(served, 1, k), r.food))
            /\ drain_T' = (IF back /\ r.logs = <<>> THEN t ELSE drain_T)
    /\ UNCHANGED in_menu

Next ==
    \/ \E key \in Keys : KeyDown(key)
    \/ Frame

Spec == Init /\ [][Next]_vars

(* --------------------- a session with a full history -------------------- *)

\* the key pressed before the k-th tick of the opening played by warm_up: the
\* snake circles through four cells that no food of the first draw touches
warm_key(k) ==
    CASE k % 4 = 1 -> "K_LEFT"
      [] k % 4 = 2 -> "K_DOWN"
      [] k % 4 = 3 -> "K_RIGHT"
      [] OTHER     -> "K_UP"

\* k passes of the loop of Game.run from session s: one key event, then the
\* tick, each pass lasting frame_time
RECURSIVE warm_up(_, _, _)
warm_up(s, t0, k) ==
    IF k = 0 THEN s
    ELSE loop_tick(handle_keypress(warm_up(s, t0, k - 1), warm_key(k)),
                   FALSE, t0 + k * s.frame_time, <<s.area.left, s.area.top>>)

\* the state WarmTicks passes into a session whose first food is the first
\* position of the range
InitWarm ==
    /\ \E ft \in FrameTimes, predictable \in BOOLEAN :
          /\ game = warm_up(session_init(GameArea, ft, predictable, StartTicks,
                                         <<GameArea.left, GameArea.top>>),
                            StartTicks, WarmTicks)
          /\ now = StartTicks + WarmTicks * ft
    /\ in_menu = FALSE
    /\ ticks = 0
    /\ last_op = "forward"
    /\ tick_dir = game.direction
    /\ InitGhosts

SpecWarm == InitWarm /\ [][Next]_vars

\* arguments a caller can hand to the constructor, valid and invalid
AreaWidths == {0 - AreaWidth, 0, AreaWidth}
AreaHeights == {0 - AreaHeight, 0, AreaHeight}
FrameTimeInputs == {0 - NORMAL, 0, NORMAL}

\* Game.run with any arguments for the session: a construction that raises
\* ends run before its loop starts
InitConstruct ==
    /\ now = StartTicks
    /\ \E w \in AreaWidths, h \in AreaHeights, ft \in FrameTimeInputs,
          predictable \in BOOLEAN :
         LET a == [left |-> 0, top |-> BAR_SIZE, width |-> w, height |-> h]
         IN \E draw \in FoodDraws(a) :
               game = construct(a, ft, predictable, now, draw)
    /\ in_menu = (game = NoSession)
    /\ ticks = 0
    /\ last_op = "init"
    /\ tick_dir = "none"
    /\ last_key = "none"
    /\ ate = FALSE
    /\ eaten = 0
    /\ run_pre = <<>>
    /\ run_post = <<>>
    /\ back_n = 0
    /\ served = (IF game = NoSession THEN <<>> ELSE <<game.food>>)
    /\ expected = <<>>
    /\ drain_T = -1

SpecConstruct == InitConstruct /\ [][Next]_vars

(* ------------------------------- claims -------------------------------- *)

\* the direction opposite to d: the one whose vector is the negation of d's
Opposite(d) ==
    CHOOSE e \in Direction :
        DirectionValue(e) = <<0 - DirectionValue(d)[1], 0 - DirectionValue(d)[2]>>

\* the direction a direction key asks for
KeyDirection(key) ==
    CASE key = "K_UP"    -> "UP"
      [] key = "K_DOWN"  -> "DOWN"
      [] key = "K_LEFT"  -> "LEFT"
      [] key = "K_RIGHT" -> "RIGHT"

\* a step that is one pass of the loop (the delay and the tick)
IsFrame == ticks' = ticks + 1

\* the last N = back_n ticks of a run of forward ticks without collision or
\* eating have just been followed by N backward ticks, 1 <= N <= LOG_LIMIT
RunRewound ==
    /\ last_op = "backward"
    /\ back_n >= 1
    /\ back_n <= Len(run_pre)
    /\ back_n <= LOG_LIMIT

\* C1, as stated: after N forward ticks (no collision, no food eaten) and
\* then N backward ticks, direction, segment positions and food equal what
\* they were before the first of the N forward ticks.
C1_InverseAsStated ==
    RunRewound => View(game) = run_pre[Len(run_pre) - back_n + 1]

\* C1, amended: after N forward ticks (no collision, no food eaten) and then
\* N backward ticks, direction, segment positions and food equal what they
\* were right after the first of the N forward ticks: the first backward
\* tick pops the snapshot of the state the session is already in.
C1_Inverse ==
    RunRewound => View(game) = run_post[Len(run_post) - back_n + 1]

\* two forward ticks have been followed by two backward ticks
C1_Witness == RunRewound /\ back_n = 2 /\ game.is_running

\* C2: once a forward step finds a collision is_running is false, and from
\* then on no step makes it true again or changes the snake, the food or the
\* history, whatever keys are pressed or held.
C2_TerminalCollision ==
    [][/\ (IsFrame /\ last_op' = "forward" /\ has_collisions(game'.parts, game'.area))
            => ~game'.is_running
       /\ ~game.is_running
            => /\ ~game'.is_running
               /\ game'.parts = game.parts
               /\ game'.food = game.food
               /\ game'.logs = game.logs
               /\ game'.next_foods = game.next_foods]_vars

\* a pass of the loop has gone by after the collision, with a direction key
\* pressed since
C2_Witness ==
    /\ ~game.is_running
    /\ has_collisions(game.parts, game.area)
    /\ last_op = "key"
    /\ ticks >= 2
    /\ tick_dir # "none" /\ tick_dir # game.direction

\* C3: in predictable-future mode, an eating event that follows a rewind to
\* before an earlier eating event at the same score puts in play the food
\* that the earlier event put in play (several rewound events: in their
\* original order).
C3_PredictableReplay ==
    (game.is_predictable_future /\ ate /\ expected # <<>>) => game.food = expected

\* C4, as stated: no tick taken while the session is running, forward or
\* backward, decreases the segment count.
C4_NeverDecreasesAsStated ==
    [][(IsFrame /\ game.is_running) => Len(game'.parts) >= Len(game.parts)]_vars

\* C4, amended: no forward tick decreases the segment count (and so the
\* score); a backward tick sets the count to that of the snapshot it pops,
\* which is smaller when it rewinds an eating event.
C4_NeverDecreases ==
    [][/\ (IsFrame /\ last_op' = "forward") => Len(game'.parts) >= Len(game.parts)
       /\ (IsFrame /\ last_op' = "backward")
            => Len(game'.parts) = Len(game.logs[Len(game.logs)].snake_parts)]_vars

\* a forward tick on which the snake grew, taken after a rewind
C4_Witness ==
    /\ last_op = "forward"
    /\ ate
    /\ game.is_running
    /\ drain_T >= 0

\* C5: after a backward tick emptied the history at clock value T,
\* is_full_reversed is true exactly while now <= T + LOG_LIMIT * frame_time
\* (1000 ms for frame_time 40), whatever ticks were taken since.
C5_ChargeCooldown ==
    drain_T >= 0 =>
        /\ is_full_reversed(game, now) <=> (now <= drain_T + LOG_LIMIT * game.frame_time)
        /\ game.frame_time = 40 => (is_full_reversed(game, now) <=> now - drain_T <= 1000)

\* the last instant of the window, reached by a forward tick after the drain
C5_Witness ==
    /\ drain_T >= 0
    /\ last_op = "forward"
    /\ now = drain_T + LOG_LIMIT * game.frame_time
    /\ is_full_reversed(game, now)

\* C6: the direction the next tick uses is the result of applying only the
\* last turn call since the previous tick to the direction in force after
\* that tick.
C6_OnlyLastTurn ==
    (game.is_running /\ tick_dir # "none" /\ last_key # "none")
        => game.direction = handle_keypress([game EXCEPT !.direction = tick_dir], last_key).direction

\* C7: a turn call for direction X leaves the direction D when X is the
\* opposite of D, and sets it to X otherwise.
C7_TurnGuard ==
    [][(last_op' = "key" /\ ~IsFrame)
         => game'.direction = (IF KeyDirection(last_key') = Opposite(game.direction)
                               THEN game.direction
                               ELSE KeyDirection(last_key'))]_vars

\* direction LEFT, and turn_right has left it LEFT
C7_Witness ==
    /\ last_op = "key"
    /\ last_key = "K_RIGHT"
    /\ game.direction = "LEFT"

\* C8: a forward tick on which the snake eats adds exactly one segment, at
\* the position the previously-last segment holds after the move; after the
\* first eating event of the session the count is SNAKE_START_LENGTH + 1 and
\* the score is 1.
C8_Growth ==
    [][(IsFrame /\ ate')
         => /\ Len(game'.parts) = Len(game.parts) + 1
            /\ SubSeq(game'.parts, 1, Len(game.parts)) = move(game.parts, game.direction)
            /\ game'.parts[Len(game.parts) + 1] = game'.parts[Len(game.parts)]
            /\ eaten' = 1 => /\ Len(game'.parts) = SNAKE_START_LENGTH + 1
                             /\ score(game') = 1]_vars

\* the first eating event of the session has just happened
C8_Witness ==
    /\ ate
    /\ eaten = 1
    /\ score(game) = 1
    /\ game.parts[4] = game.parts[3]
    /\ game.parts[3] # game.parts[2]

\* C9: the history holds between 0 and LOG_LIMIT snapshots, and
\* reverse_percent is an integer of 0 .. 100, 4 per snapshot.
C9_GaugeBounds ==
    /\ Len(game.logs) \in 0 .. LOG_LIMIT
    /\ reverse_percent(game) \in 0 .. 100
    /\ LOG_LIMIT = 25 => reverse_percent(game) = 4 * Len(game.logs)

\* a forward tick was taken on a full history
C9_Witness ==
    /\ ticks = 1
    /\ last_op = "forward"
    /\ Len(game.logs) = LOG_LIMIT
    /\ reverse_percent(game) = 100

\* C10: the snake has at least SNAKE_START_LENGTH segments, so the score is
\* never negative.
C10_ScoreNonNegative ==
    /\ Len(game.parts) >= SNAKE_START_LENGTH
    /\ score(game) >= 0

\* an eating event has been rewound: the snake is back to its first length
C10_Witness ==
    /\ last_op = "backward"
    /\ eaten >= 1
    /\ score(game) = 0

\* C11: constructing a GameSession with a non-positive area width or height,
\* or with a non-positive frame_time, raises and yields no session object:
\* no session exists whose width, height or frame_time is <= 0.
C11_ConstructionFailsFast ==
    game # NoSession =>
        /\ game.area.width > 0
        /\ game.area.height > 0
        /\ game.frame_time > 0

\* C12: on a forward tick whose move makes the snake collide, the session is
\* over and the history is left unchanged: no snapshot of the colliding
\* state is appended and no old snapshot is evicted.
C12_CollisionKeepsHistory ==
    [][(IsFrame /\ last_op' = "forward" /\ ~game'.is_running)
          => game'.logs = game.logs]_vars

\* C13: a tick of move_snake runs a backward step exactly when the rewind
\* key is held, the history is non-empty and is_full_reversed is false, and
\* a forward step in every other case; is_reversed reports which one ran; a
\* tick with rewind held on an empty history runs forward, so nothing is
\* popped from an empty history.
C13_ModeSelection ==
    game.is_running =>
        \A pressed_r \in BOOLEAN, d \in TickDurations(game.frame_time),
           draw \in FoodDraws(game.area) :
            LET t == now + d
                r == loop_tick(game, pressed_r, t, draw)
                backward == /\ pressed_r
                            /\ game.logs # <<>>
                            /\ ~(t - game.last_full_revert <= LOG_LIMIT * game.frame_time)
            IN /\ r.is_reversed = backward
               /\ backward =>
                     /\ Len(r.logs) = Len(game.logs) - 1
                     /\ r.parts = game.logs[Len(game.logs)].snake_parts
               /\ ~backward =>
                     /\ head(r.parts) = head(move(game.parts, game.direction))
                     /\ r.logs # <<>>
                     /\ r.logs[Len(r.logs)].snake_parts = r.parts
               /\ (pressed_r /\ game.logs = <<>>) => ~r.is_reversed

\* a backward tick has just emptied the history of a running session: the
\* next tick runs forward even with the rewind key held
C13_Witness ==
    /\ last_op = "backward"
    /\ game.is_reversed
    /\ game.logs = <<>>
    /\ game.is_running

\* C14: for two consecutive forward ticks and any key events between them,
\* the direction the head moves in on the second tick is never the opposite
\* of the one it moved in on the first, so the head is never moved back onto
\* the segment directly behind it.
C14_NoReversal ==
    [][(IsFrame /\ last_op' = "forward" /\ tick_dir # "none" /\ back_n = 0)
          => /\ game.direction # Opposite(tick_dir)
             /\ head(game'.parts) # game.parts[2]]_vars

\* C15: a forward tick without collision appends exactly one snapshot, that
\* of the state it results in, making the length min(old length + 1,
\* LOG_LIMIT) and evicting only the oldest snapshot of a full history; a
\* backward tick removes exactly the newest snapshot and appends nothing;
\* the order of the other snapshots is unchanged.
C15_HistoryDiscipline ==
    [][IsFrame =>
        /\ (last_op' = "forward" /\ game'.is_running) =>
              /\ game'.logs =
                    Append(IF Len(game.logs) = LOG_LIMIT THEN Tail(game.logs) ELSE game.logs,
                           [snake_direction |-> game'.direction,
                            snake_parts |-> game'.parts,
                            food |-> game'.food])
              /\ Len(game'.logs) =
                    (IF Len(game.logs) + 1 < LOG_LIMIT THEN Len(game.logs) + 1 ELSE LOG_LIMIT)
        /\ last_op' = "backward" =>
              /\ game'.logs = SubSeq(game.logs, 1, Len(game.logs) - 1)
              /\ Len(game'.logs) = Len(game.logs) - 1]_vars

\* a forward tick on a full history (the oldest snapshot evicted) has been
\* followed by a backward tick
C15_Witness ==
    /\ ticks = 2
    /\ last_op = "backward"
    /\ Len(game.logs) = LOG_LIMIT - 1
    /\ game.is_running

\* C16: a backward tick sets direction, segment positions (count and order)
\* and food to exactly the values of the popped snapshot and checks neither
\* collision nor eating: is_running is unchanged, no segment is added and no
\* new food position is drawn, even if the restored head overlaps the
\* restored food.
C16_RestoreVerbatim ==
    [][(IsFrame /\ last_op' = "backward") =>
          LET snap == game.logs[Len(game.logs)]
          IN /\ game'.direction = snap.snake_direction
             /\ game'.parts = snap.snake_parts
             /\ Len(game'.parts) = Len(snap.snake_parts)
             /\ game'.food = snap.food
             /\ game'.is_running = game.is_running
             /\ ~game'.is_predictable_future => game'.next_foods = game.next_foods]_vars

\* a backward tick has restored a head that overlaps the restored food
C16_Witness ==
    /\ last_op = "backward"
    /\ game.is_running
    /\ colliderect(Rect(head(game.parts), PART_SIZE), Rect(game.food, FOOD_SIZE))

\* C17: with predictable-future mode disabled the deferred-food stack is
\* empty in every reachable state.
C17_StackUnused ==
    ~game.is_predictable_future => game.next_foods = <<>>

\* with the mode disabled, backward ticks have rewound an eating event whose
\* new food lay elsewhere
C17_Witness ==
    /\ ~game.is_predictable_future
    /\ last_op = "backward"
    /\ Len(served) >= 2
    /\ score(game) = 0
    /\ served[2] # game.food

\* C18: in every reachable state the food rectangle (side FOOD_SIZE) lies
\* entirely inside the game area, whether the food was drawn at random,
\* re-served from the deferred-food stack or restored from a snapshot.
C18_FoodInsideArea ==
    /\ game.area.left <= game.food[1]
    /\ game.food[1] + FOOD_SIZE <= game.area.left + game.area.width
    /\ game.area.top <= game.food[2]
    /\ game.food[2] + FOOD_SIZE <= game.area.top + game.area.height

\* the snake has just eaten and the new food is the last position of the
\* range, the one nearest the right and bottom edges
C18_Witness ==
    /\ ate
    /\ game.food = <<game.area.left + game.area.width - (FOOD_SIZE * 2) - 1,
                     game.area.top + game.area.height - (FOOD_SIZE * 2) - 1>>

\* a tick with the rewind key held, at clock value t, runs forward
HeldTickRunsForward(t) ==
    \A draw \in FoodDraws(game.area) :
        LET r == loop_tick(game, TRUE, t, draw)
        IN /\ ~r.is_reversed
           /\ head(r.parts) = head(move(game.parts, game.direction))

\* C19, as stated: from creation until more than LOG_LIMIT * frame_time ms
\* have elapsed every tick is a forward tick, even with the rewind key held
\* and a non-empty history; in particular a backward tick never directly
\* follows the first forward tick of a session.
C19_InitialCooldownAsStated ==
    game.is_running =>
        \A d \in FrameDurations(game.frame_time) :
            (now + d - StartTicks <= LOG_LIMIT * game.frame_time \/ ticks = 1)
                => HeldTickRunsForward(now + d)

\* C19, amended: from creation until more than LOG_LIMIT * frame_time ms
\* have elapsed every tick is a forward tick, even with the rewind key held
\* and a non-empty history; the tick after the first forward tick is
\* covered only while it falls inside that window.
C19_InitialCooldown ==
    game.is_running =>
        \A d \in FrameDurations(game.frame_time) :
            (now + d - StartTicks <= LOG_LIMIT * game.frame_time)
                => HeldTickRunsForward(now + d)

\* a running session with a non-empty history whose next tick falls inside
\* the window that opened at creation
C19_Witness ==
    /\ game.is_running
    /\ ticks >= 1
    /\ game.logs # <<>>
    /\ now + game.frame_time - StartTicks <= LOG_LIMIT * game.frame_time

\* the head rectangle lies inside the area and overlaps no other part
HeadClear(parts, area) ==
    /\ area.left <= parts[1][1]
    /\ parts[1][1] + PART_SIZE <= area.left + area.width
    /\ area.top <= parts[1][2]
    /\ parts[1][2] + PART_SIZE <= area.top + area.height
    /\ \A i \in 2..Len(parts) :
          ~colliderect(Rect(parts[1], PART_SIZE), Rect(parts[i], PART_SIZE))

\* C20: after any tick, forward or backward, that leaves is_running true the
\* head lies entirely inside the game area and overlaps no tail segment, and
\* so does every snapshot a backward tick can restore.
C20_CollisionFree ==
    (game.is_running /\ tick_dir # "none") =>
        /\ HeadClear(game.parts, game.area)
        /\ \A i \in 1..Len(game.logs) :
              HeadClear(game.logs[i].snake_parts, game.area)

\* a backward tick has restored a snapshot and left others to restore
C20_Witness ==
    /\ last_op = "backward"
    /\ game.is_running
    /\ game.logs # <<>>

=============================================================================
